---- MODULE Spec2Model ----
(***************************************************************************)
(* A model of andrearosasco/implicit_representation_benchmark:            *)
(*   - utils/visualization_vispy.py: the Visualizer worker process, its    *)
(*     capacity-1 queue, its start-up barrier and its event handlers;      *)
(*   - experiments/overfit.py: the training loop of main() with its        *)
(*     periodic metric and its latest/best checkpoints.                    *)
(***************************************************************************)
EXTENDS Integers, Sequences, FiniteSets, TLC

(***************************************************************************)
(* Bounds of the model                                                     *)
(***************************************************************************)
\* number of points in a snapshot passed to update
NPoints == 1
\* chamfer distances lie in 0..MaxChamfer
MaxChamfer == 2
\* the largest Train.epochs is 3 * CkptEvery + ExtraEpochs
ExtraEpochs == 2

(***************************************************************************)
(* Program constants                                                       *)
(***************************************************************************)
QueueSize == 1
BarrierParties == 2
MetricEvery == 1000
CkptEvery == 5000
WidthOn == 10
WidthOff == 0
MarkerSize == 5

\* Python's None, where an object (a dict of tensors) is expected
None == [owner |-> "nobody"]
\* an optional number or file: <<>> when absent, <<v>> when it holds v
Absent == <<>>

VARIABLES
    \* ---- parent process (the caller of update / stop)
    setup_f,          \* Visualizer.setup_f, the parent's copy
    ppc,              \* where the parent is inside update
    data,             \* argument of the current (or the last) update call
    parent_app_quit,  \* app.quit() was called on the parent's vispy app
    \* ---- shared between the two processes
    queue_in,         \* multiprocessing.Queue(1)
    barrier_waiting,  \* parties blocked inside barrier.wait()
    barrier_passed,   \* parties the barrier has released, not yet resumed
    \* ---- worker process (Visualizer.run)
    wpc,              \* where the worker is
    color_f, gt_f, ref_f,
    last_data,
    scatter,          \* what self.scatter was last given by set_data
    cube_width, ref_width,
    worker_app_quit,  \* app.quit() was called on the worker's vispy app (no code does)
    \* ---- history
    waits,            \* how many times each party has called barrier.wait()
    updated,          \* an update call returned since the last timer tick
    \* ---- experiments/overfit.py main()
    tpc, epochs, i, steps, chamfer_real, chamfer_i, best,
    latest_pth, best_pth, ckpts

visVars == <<setup_f, ppc, data, parent_app_quit, queue_in, barrier_waiting,
             barrier_passed, wpc, color_f, gt_f, ref_f, last_data, scatter,
             cube_width, ref_width, worker_app_quit, waits, updated>>
trainVars == <<tpc, epochs, i, steps, chamfer_real, chamfer_i, best,
               latest_pth, best_pth, ckpts>>
vars == <<visVars, trainVars>>

(***************************************************************************)
(* Snapshots: data['points'], data['predictions'], data['labels']          *)
(***************************************************************************)
\* predictions are logits; sigmoid(0) = 0.5 and sigmoid(1) = 0.731...
Logits == {0, 1}

\* torch.sigmoid(p) > 0.7 on the integer logits of the model
SigmoidAbove07(p) == p >= 1

Coord(k) == <<k, k + 1, 0>>

\* the snapshots a caller may pass to update; owner tells whose storage it is
Data ==
    { [points |-> [k \in 1..NPoints |-> Coord(k)],
       predictions |-> p, labels |-> l, owner |-> "caller"] :
        p \in [1..NPoints -> Logits], l \in [1..NPoints -> BOOLEAN] }

\* copy.deepcopy(data): same contents, storage of its own
deepcopy(d) == [d EXCEPT !.owner = "copy"]

\* queue_in.get() in the worker: the pickled item becomes an object of the worker
unpickle(d) == [d EXCEPT !.owner = "worker"]

\* two snapshots hold the same tensors
SameContents(a, b) ==
    /\ a.points = b.points
    /\ a.predictions = b.predictions
    /\ a.labels = b.labels

Green == <<0, 1, 0>>
Red == <<1, 0, 0>>
Blue == <<0, 0, 1>>
Yellow == <<1, 1, 0>>

\* x[mask]: the elements of sequence x at the indices where mask holds
RECURSIVE Select(_, _)
Select(x, mask) ==
    IF x = <<>> THEN <<>>
    ELSE (IF Head(mask) THEN <<Head(x)>> ELSE <<>>) \o Select(Tail(x), Tail(mask))

positive_idxs(d) == [k \in 1..Len(d.points) |-> SigmoidAbove07(d.predictions[k])]
false_negative_idxs(d) ==
    [k \in 1..Len(d.points) |-> d.labels[k] /\ ~positive_idxs(d)[k]]

positive(d) == Select(d.points, positive_idxs(d))
false_negative(d) == Select(d.points, false_negative_idxs(d))

\* pc of on_timer
PointCloud(d, gt) == IF gt THEN positive(d) \o false_negative(d) ELSE positive(d)

\* n rows of one colour: np.array([[...]]).repeat(n, 0)
Repeat(colour, n) == [k \in 1..n |-> colour]

\* torch.where(labels[positive_idxs], green, red): one colour per positive
WhereLabel(labs) == [k \in 1..Len(labs) |-> IF labs[k] THEN Green ELSE Red]

p_colors(d, col) ==
    IF col THEN WhereLabel(Select(d.labels, positive_idxs(d)))
    ELSE Repeat(Blue, Len(positive(d)))

\* fn_colors
fn_colors(d) == Repeat(Yellow, Len(false_negative(d)))

Colors(d, col, gt) ==
    IF gt THEN p_colors(d, col) \o fn_colors(d)
    ELSE p_colors(d, col)

\* pc * np.array([1, -1, 1])
FlipY(pts) == [k \in 1..Len(pts) |-> <<pts[k][1], 0 - pts[k][2], pts[k][3]>>]

\* the arguments of scatter.set_data
Scene(d, col, gt) ==
    [pos |-> FlipY(PointCloud(d, gt)), colors |-> Colors(d, col, gt),
     size |-> MarkerSize]

\* Markers(parent=vb.scene) before any set_data
EmptyScene == [pos |-> <<>>, colors |-> <<>>, size |-> 0]

\* Redraw, wrong: set_data is called whatever the size of pc
RedrawAlways(old, d, col, gt) == Scene(d, col, gt)

\* the scatter after on_timer has processed d
Redraw(old, d, col, gt) ==
    IF Len(PointCloud(d, gt)) # 0 THEN Scene(d, col, gt) ELSE old

(***************************************************************************)
(* Visualizer.__init__                                                     *)
(***************************************************************************)
VisInit ==
    /\ setup_f = FALSE
    /\ ppc = "idle"
    /\ data = None
    /\ parent_app_quit = FALSE
    /\ queue_in = <<>>
    /\ barrier_waiting = {}
    /\ barrier_passed = {}
    /\ wpc = "unstarted"
    /\ color_f = TRUE
    /\ gt_f = TRUE
    /\ ref_f = TRUE
    /\ last_data = None
    /\ scatter = EmptyScene          \* nothing is drawn before build_gui
    /\ cube_width = WidthOff         \* neither the cube
    /\ ref_width = WidthOff          \* nor the axes
    /\ worker_app_quit = FALSE
    /\ waits = [p \in {"parent", "worker"} |-> 0]
    /\ updated = FALSE

(***************************************************************************)
(* multiprocessing primitives                                              *)
(***************************************************************************)
\* The queue is taken as one atomic object: a put is visible to empty() and
\* get() at once (the feeder thread of multiprocessing.Queue is not modelled).
\* Queue.empty()
Empty(q) == Len(q) = 0
\* Queue.full()
Full(q) == Len(q) >= QueueSize

\* barrier.wait() called by party p: the last party to arrive releases all
BarrierArrive(p) ==
    /\ waits' = [waits EXCEPT ![p] = @ + 1]
    /\ IF Cardinality(barrier_waiting \cup {p}) >= BarrierParties
       THEN /\ barrier_passed' = barrier_passed \cup barrier_waiting \cup {p}
            /\ barrier_waiting' = {}
       ELSE /\ barrier_waiting' = barrier_waiting \cup {p}
            /\ barrier_passed' = barrier_passed

\* party p returns from barrier.wait()
BarrierLeave(p) ==
    /\ p \in barrier_passed
    /\ barrier_passed' = barrier_passed \ {p}
    /\ UNCHANGED <<barrier_waiting, waits>>

parentVars == <<setup_f, ppc, data, parent_app_quit>>
workerVars == <<wpc, color_f, gt_f, ref_f, last_data, scatter, cube_width,
                ref_width, worker_app_quit>>
barrierVars == <<barrier_waiting, barrier_passed, waits>>

(***************************************************************************)
(* Parent: Visualizer.update(data)                                         *)
(***************************************************************************)
\* CheckEmpty, wrong: the emptiness check is left out
CheckEmptySkipped ==
    /\ ppc' = "put"
    /\ UNCHANGED updated

\* "if self.queue_in.empty():" ; when it is not, update returns
CheckEmpty ==
    IF Empty(queue_in)
    THEN /\ ppc' = "put"
         /\ UNCHANGED updated
    ELSE /\ ppc' = "idle"
         /\ updated' = TRUE

\* update(d) is entered; "if not self.setup_f: self.setup_f = True", and when
\* the worker is set up already, the emptiness check of line 134
UpdateCall(d) ==
    /\ ppc = "idle"
    /\ data' = d
    /\ IF ~setup_f
       THEN /\ setup_f' = TRUE
            /\ ppc' = "start"
            /\ UNCHANGED updated
       ELSE /\ CheckEmpty
            /\ UNCHANGED setup_f
    /\ UNCHANGED <<parent_app_quit, queue_in, barrierVars, workerVars>>

\* self.start(): the worker process begins Visualizer.run
UpdateStart ==
    /\ ppc = "start"
    /\ wpc = "unstarted"
    /\ wpc' = "build_gui"
    /\ ppc' = "barrier_call"
    /\ UNCHANGED <<setup_f, data, parent_app_quit, queue_in, barrierVars,
                   color_f, gt_f, ref_f, last_data, scatter, cube_width,
                   ref_width, worker_app_quit, updated>>

\* self.barrier.wait(), the call
UpdateBarrierWait ==
    /\ ppc = "barrier_call"
    /\ BarrierArrive("parent")
    /\ ppc' = "barrier_wait"
    /\ UNCHANGED <<setup_f, data, parent_app_quit, queue_in, workerVars, updated>>

\* UpdateBarrierPass, wrong: the parent does not wait for the worker
UpdateBarrierPassAlone ==
    /\ ppc = "barrier_wait"
    /\ ppc' = "check"
    /\ barrier_passed' = barrier_passed \ {"parent"}
    /\ barrier_waiting' = barrier_waiting \ {"parent"}
    /\ UNCHANGED <<waits, setup_f, data, parent_app_quit, queue_in, workerVars,
                   updated>>

\* self.barrier.wait(), the return
UpdateBarrierPass ==
    /\ ppc = "barrier_wait"
    /\ BarrierLeave("parent")
    /\ ppc' = "check"
    /\ UNCHANGED <<setup_f, data, parent_app_quit, queue_in, workerVars, updated>>

\* the first call reaches line 134 after the barrier
UpdateCheck ==
    /\ ppc = "check"
    /\ CheckEmpty
    /\ UNCHANGED <<setup_f, data, parent_app_quit, queue_in, barrierVars, workerVars>>

\* UpdatePut, wrong: the put replaces whatever the queue holds
UpdatePutReplacing ==
    /\ ppc = "put"
    /\ queue_in' = <<deepcopy(data)>>
    /\ ppc' = "idle"
    /\ updated' = TRUE
    /\ UNCHANGED <<setup_f, data, parent_app_quit, barrierVars, workerVars>>

\* "self.queue_in.put(copy.deepcopy(data))": a blocking put, then update returns
UpdatePut ==
    /\ ppc = "put"
    /\ ~Full(queue_in)
    /\ queue_in' = Append(queue_in, deepcopy(data))
    /\ ppc' = "idle"
    /\ updated' = TRUE
    /\ UNCHANGED <<setup_f, data, parent_app_quit, barrierVars, workerVars>>

(***************************************************************************)
(* Parent: Visualizer.stop()                                               *)
(***************************************************************************)
\* app.quit() runs in the calling process, on that process's vispy application
Stop ==
    /\ ppc = "idle"
    /\ parent_app_quit' = TRUE
    /\ UNCHANGED <<setup_f, ppc, data, queue_in, barrierVars, workerVars, updated>>

(***************************************************************************)
(* Worker: Visualizer.run                                                  *)
(***************************************************************************)
\* self.build_gui()
BuildGui ==
    /\ wpc = "build_gui"
    /\ scatter' = EmptyScene
    /\ cube_width' = WidthOn
    /\ ref_width' = WidthOn
    /\ wpc' = "barrier_call"
    /\ UNCHANGED <<parentVars, queue_in, barrierVars, color_f, gt_f, ref_f,
                   last_data, worker_app_quit, updated>>

\* self.barrier.wait(), the call
RunBarrierWait ==
    /\ wpc = "barrier_call"
    /\ BarrierArrive("worker")
    /\ wpc' = "barrier_wait"
    /\ UNCHANGED <<parentVars, queue_in, color_f, gt_f, ref_f, last_data,
                   scatter, cube_width, ref_width, worker_app_quit, updated>>

\* self.barrier.wait() returns and app.run() starts the event loop
RunBarrierPass ==
    /\ wpc = "barrier_wait"
    /\ BarrierLeave("worker")
    /\ wpc' = "app_run"
    /\ UNCHANGED <<parentVars, queue_in, color_f, gt_f, ref_f, last_data,
                   scatter, cube_width, ref_width, worker_app_quit, updated>>

\* the event loop of app.run() dispatches events until its app is quit
LoopRunning == wpc = "app_run" /\ ~worker_app_quit

(***************************************************************************)
(* Worker: Visualizer.on_timer                                             *)
(***************************************************************************)
\* "if not self.queue_in.empty():" ; an empty queue ends the handler
OnTimerCheck ==
    /\ LoopRunning
    /\ IF ~Empty(queue_in)
       THEN /\ wpc' = "on_timer_get"
            /\ UNCHANGED updated
       ELSE /\ wpc' = wpc
            /\ updated' = FALSE
    /\ UNCHANGED <<parentVars, queue_in, barrierVars, color_f, gt_f, ref_f,
                   last_data, scatter, cube_width, ref_width, worker_app_quit>>

\* "data = self.queue_in.get()" (blocking), last_data and the redraw
OnTimerGet ==
    /\ wpc = "on_timer_get"
    /\ ~Empty(queue_in)
    /\ last_data' = unpickle(Head(queue_in))
    /\ queue_in' = Tail(queue_in)
    /\ scatter' = Redraw(scatter, Head(queue_in), color_f, gt_f)
    /\ wpc' = "app_run"
    /\ updated' = FALSE
    /\ UNCHANGED <<parentVars, barrierVars, color_f, gt_f, ref_f, cube_width,
                   ref_width, worker_app_quit>>

(***************************************************************************)
(* Worker: Visualizer.dispatch                                             *)
(***************************************************************************)
Keys == {"c", "g", "r", "x"}

\* Requeue, wrong: the put does not care whether the queue is full
RequeueUnbounded ==
    IF last_data # None
    THEN queue_in' = Append(queue_in, last_data)
    ELSE UNCHANGED queue_in

\* Requeue, wrong: last_data is put even when it is still None
RequeueNone ==
    IF ~Full(queue_in)
    THEN queue_in' = Append(queue_in, last_data)
    ELSE UNCHANGED queue_in

\* lines 83-87: put(last_data, block=False), queue.Full swallowed
Requeue ==
    IF last_data # None /\ ~Full(queue_in)
    THEN queue_in' = Append(queue_in, last_data)
    ELSE UNCHANGED queue_in

Dispatch(key) ==
    /\ LoopRunning
    /\ IF key = "c"
       THEN /\ color_f' = ~color_f
            /\ Requeue
            /\ UNCHANGED <<gt_f, ref_f, cube_width, ref_width>>
       ELSE IF key = "g"
       THEN /\ gt_f' = ~gt_f
            /\ Requeue
            /\ UNCHANGED <<color_f, ref_f, cube_width, ref_width>>
       ELSE IF key = "r"
       THEN /\ ref_f' = ~ref_f
            /\ cube_width' = (IF ref_f' THEN WidthOn ELSE WidthOff)
            /\ ref_width' = (IF ref_f' THEN WidthOn ELSE WidthOff)
            /\ UNCHANGED <<color_f, gt_f, queue_in>>
       ELSE UNCHANGED <<color_f, gt_f, ref_f, cube_width, ref_width, queue_in>>
    /\ UNCHANGED <<parentVars, barrierVars, wpc, last_data, scatter,
                   worker_app_quit, updated>>

(***************************************************************************)
(* experiments/overfit.py: the training loop of main()                     *)
(***************************************************************************)
\* np.inf, the initial value of best
Inf == <<>>

\* the values chamfer_real may take
Chamfers == 0..MaxChamfer

\* the values of Train.epochs that are tried
EpochsChoices == {0, CkptEvery - 1, CkptEvery, 3 * CkptEvery + ExtraEpochs}

\* Greater, wrong: "best >= chamfer_real"
GreaterOrEqual(b, c) == IF b = Inf THEN TRUE ELSE b[1] >= c

\* "best > chamfer_real" with best possibly np.inf
Greater(b, c) == IF b = Inf THEN TRUE ELSE b[1] > c

\* (i + 1) % 1000 == 0
IsMetricIter(n) == (n + 1) % MetricEvery = 0
\* IsCkptIter, wrong: "i % 5000 == 0"
IsCkptIterOffByOne(n) == n % CkptEvery = 0

\* (i + 1) % 5000 == 0
IsCkptIter(n) == (n + 1) % CkptEvery = 0

\* main() up to "range = trange(Train.epochs)": before the run the visualizer
\* is not used, and the checkpoint directory holds no file
TrainStart ==
    /\ tpc = "loop"
    /\ epochs \in EpochsChoices
    /\ i = 0
    /\ steps = 0
    /\ chamfer_real = Absent
    /\ chamfer_i = Absent
    /\ best = Inf
    /\ latest_pth = Absent
    /\ best_pth = Absent
    /\ ckpts = <<>>

\* the checkpoint block of iteration i, lines 87-135, with chamfer_real = cr
\* read on line 133 (an unbound chamfer_real raises there, after line 132)
Checkpoint(cr, ci) ==
    /\ latest_pth' = <<steps'>>
    /\ IF cr = Absent
       THEN /\ tpc' = "error"
            /\ UNCHANGED <<best, best_pth, ckpts>>
       ELSE /\ tpc' = "loop"
            /\ ckpts' = Append(ckpts, [iter |-> i, chamfer |-> cr[1],
                                       chamfer_iter |-> ci, steps |-> steps'])
            /\ IF Greater(best, cr[1])
               THEN /\ best_pth' = <<steps'>>
                    /\ best' = cr
               ELSE UNCHANGED <<best, best_pth>>

\* one iteration of "for i in range", lines 67-137; c is what the metric returns
Iteration(c) ==
    /\ tpc = "loop"
    /\ i < epochs
    /\ steps' = steps + 1
    /\ IF IsMetricIter(i)
       THEN /\ chamfer_real' = <<c>>
            /\ chamfer_i' = <<i>>
       ELSE UNCHANGED <<chamfer_real, chamfer_i>>
    /\ IF IsCkptIter(i)
       THEN Checkpoint(chamfer_real', chamfer_i')
       ELSE UNCHANGED <<tpc, latest_pth, best, best_pth, ckpts>>
    /\ i' = i + 1
    /\ UNCHANGED epochs

\* the range is exhausted and main() returns
LoopExit ==
    /\ tpc = "loop"
    /\ i >= epochs
    /\ tpc' = "done"
    /\ UNCHANGED <<epochs, i, steps, chamfer_real, chamfer_i, best, latest_pth,
                   best_pth, ckpts>>

(***************************************************************************)
(* The visualizer, two processes                                           *)
(***************************************************************************)
\* overfit.py is not running
TrainIdle ==
    /\ tpc = "off"
    /\ epochs = 0
    /\ i = 0
    /\ steps = 0
    /\ chamfer_real = Absent
    /\ chamfer_i = Absent
    /\ best = Inf
    /\ latest_pth = Absent
    /\ best_pth = Absent
    /\ ckpts = <<>>

Init == VisInit /\ TrainIdle

Next ==
    \/ \E d \in Data : UpdateCall(d) /\ UNCHANGED trainVars
    \/ UpdateStart /\ UNCHANGED trainVars
    \/ UpdateBarrierWait /\ UNCHANGED trainVars
    \/ UpdateBarrierPass /\ UNCHANGED trainVars
    \/ UpdateCheck /\ UNCHANGED trainVars
    \/ UpdatePut /\ UNCHANGED trainVars
    \/ Stop /\ UNCHANGED trainVars
    \/ BuildGui /\ UNCHANGED trainVars
    \/ RunBarrierWait /\ UNCHANGED trainVars
    \/ RunBarrierPass /\ UNCHANGED trainVars
    \/ OnTimerCheck /\ UNCHANGED trainVars
    \/ OnTimerGet /\ UNCHANGED trainVars
    \/ \E key \in Keys : Dispatch(key) /\ UNCHANGED trainVars

Spec == Init /\ [][Next]_vars

(***************************************************************************)
(* The training script alone                                               *)
(***************************************************************************)
TrainInit == VisInit /\ TrainStart

TrainNext ==
    \/ \E c \in (IF IsMetricIter(i) THEN Chamfers ELSE {0}) :
           Iteration(c) /\ UNCHANGED visVars
    \/ LoopExit /\ UNCHANGED visVars

TrainSpec == TrainInit /\ [][TrainNext]_vars

(***************************************************************************)
(* Properties                                                              *)
(***************************************************************************)
\* a step takes an item out of the queue / puts one in
Dequeues == Len(queue_in') < Len(queue_in)
Enqueues == Len(queue_in') > Len(queue_in)

\* a step is a call of update
IsUpdateCall == \E d \in Data : UpdateCall(d)

\* the worker has completed build_gui
GuiBuilt == wpc \notin {"unstarted", "build_gui"}

\* C1: update never waits for the worker after start-up: whenever the parent
\* is at the put of line 135, the queue has room for the item.
C1_UpdateNeverBlocks == ~(ppc = "put" /\ Full(queue_in))

\* C2: update enqueues a deep copy of data exactly when the queue is empty
\* at the call: a call that finds an item returns at once and leaves the
\* queue, last_data and the scene alone; a call that finds none goes on to
\* the put (the first call through start-up, where the queue is still empty
\* at line 134), and the put leaves exactly one item, a copy of data with
\* storage of its own.
C2_UpdateEnqueuesIffEmpty ==
    [][ /\ (IsUpdateCall /\ ~Empty(queue_in)
              => ppc' = "idle" /\ UNCHANGED <<queue_in, last_data, scatter>>)
        /\ (IsUpdateCall /\ Empty(queue_in) => ppc' \in {"put", "start"})
        /\ (ppc = "check" /\ ppc' # ppc => Empty(queue_in) /\ ppc' = "put")
        /\ (ppc \in {"check", "put"} /\ ppc' = "idle"
              => /\ ppc = "put"
                 /\ Len(queue_in') = 1
                 /\ SameContents(queue_in'[1], data)
                 /\ queue_in'[1].owner # data.owner)
      ]_vars

\* an update was discarded: it has returned, no tick followed, and the queue
\* holds another snapshot than the one passed
C2_Witness ==
    /\ ppc = "idle"
    /\ updated
    /\ queue_in # <<>>
    /\ ~SameContents(queue_in[1], data)

\* C3, as claimed: when update calls have returned since the previous tick,
\* the tick dequeues the snapshot passed to the most recent of them.
C3_MostRecentWins ==
    [][Dequeues /\ updated /\ ppc = "idle" => SameContents(last_data', data)]_vars

\* C3, amended: the first snapshot wins. An item in the queue is never
\* replaced, it stays until a tick takes it out, and the tick takes out
\* exactly that item.
C3_FirstWins ==
    [][ /\ (queue_in # <<>> /\ queue_in' # <<>> => queue_in' = queue_in)
        /\ (Dequeues => /\ SameContents(last_data', Head(queue_in))
                        /\ queue_in' = Tail(queue_in))
      ]_vars

\* the last tick took out an older snapshot than the latest one passed
C3_Witness ==
    /\ ppc = "idle"
    /\ ~updated
    /\ queue_in = <<>>
    /\ last_data # None
    /\ data # None
    /\ ~SameContents(last_data, data)

\* C4: each party waits on the barrier at most once, and once the parent is
\* past the barrier (at the check, at the put, or back from its first update)
\* both have waited exactly once and the worker has completed build_gui.
C4_BarrierOnceOrdersStartup ==
    /\ waits["parent"] <= 1
    /\ waits["worker"] <= 1
    /\ (ppc \in {"check", "put"} \/ (setup_f /\ ppc = "idle") \/ queue_in # <<>>
          => GuiBuilt /\ waits["parent"] = 1 /\ waits["worker"] = 1)

\* a later update is at its put, after a snapshot has been rendered
C4_Witness ==
    /\ setup_f
    /\ ppc = "put"
    /\ last_data # None
    /\ waits["parent"] = 1
    /\ waits["worker"] = 1

\* C5, as claimed: a tick that finds an item dequeues it, records it as
\* last_data and draws its point cloud; a tick that finds none changes
\* nothing.
C5_TickAlwaysRedraws ==
    [][ /\ (OnTimerCheck /\ ~Empty(queue_in) => wpc' = "on_timer_get")
        /\ (wpc = "on_timer_get" /\ wpc' # wpc => Dequeues)
        /\ (Dequeues
              => /\ SameContents(last_data', Head(queue_in))
                 /\ queue_in' = Tail(queue_in)
                 /\ scatter'.pos = FlipY(PointCloud(Head(queue_in), gt_f))
                 /\ scatter'.colors = Colors(Head(queue_in), color_f, gt_f))
        /\ (OnTimerCheck /\ Empty(queue_in)
              => UNCHANGED <<queue_in, last_data, scatter>>)
      ]_vars

\* C5, amended: as claimed, except that the scatter is redrawn only when the
\* point cloud of the dequeued snapshot is not empty; when it is empty the
\* scene drawn before stays.
C5_TickRedrawsNonEmptyCloud ==
    [][ /\ (OnTimerCheck /\ ~Empty(queue_in) => wpc' = "on_timer_get")
        /\ (wpc = "on_timer_get" /\ wpc' # wpc => Dequeues)
        /\ (Dequeues
              => /\ SameContents(last_data', Head(queue_in))
                 /\ queue_in' = Tail(queue_in)
                 /\ IF PointCloud(Head(queue_in), gt_f) # <<>>
                    THEN /\ scatter'.pos = FlipY(PointCloud(Head(queue_in), gt_f))
                         /\ scatter'.colors = Colors(Head(queue_in), color_f, gt_f)
                         /\ scatter'.size = 5
                    ELSE scatter' = scatter)
        /\ (OnTimerCheck /\ Empty(queue_in)
              => UNCHANGED <<queue_in, last_data, scatter>>)
      ]_vars

\* the snapshot dequeued last has no point to draw and an older scene is shown
C5_Witness ==
    /\ last_data # None
    /\ PointCloud(last_data, TRUE) = <<>>
    /\ scatter.pos # <<>>

\* C6: once the parent has called stop(), the worker's event loop starts no
\* further handler that takes a snapshot out of the queue.
C6_StopEndsWorkerLoop ==
    [][parent_app_quit /\ wpc = "app_run" => wpc' = "app_run"]_vars

\* C7, as claimed: the queue never holds more than one item, every put is the
\* parent's (update) and every get is the worker's (on_timer).
C7_SingleProducer ==
    [][ /\ Len(queue_in') <= 1
        /\ (Enqueues => ppc = "put" /\ ppc' = "idle")
        /\ (Dequeues => wpc = "on_timer_get" /\ wpc' = "app_run")
      ]_vars

\* C7, amended: the queue never holds more than one item and every get is
\* the worker's on_timer, but there are two producers: the parent's update
\* and the worker's own key-press handler, which puts last_data back.
C7_DepthOneTwoProducers ==
    [][ /\ Len(queue_in') <= 1
        /\ (Enqueues
              => \/ ppc = "put" /\ ppc' = "idle" /\ wpc' = wpc
                 \/ /\ wpc = "app_run" /\ wpc' = wpc /\ ppc' = ppc
                    /\ (color_f' # color_f \/ gt_f' # gt_f)
                    /\ queue_in' = <<last_data>>)
        /\ (Dequeues => wpc = "on_timer_get" /\ wpc' = "app_run" /\ ppc' = ppc)
      ]_vars

\* the worker has put an item while the parent is at its own put
C7_Witness ==
    /\ ppc = "put"
    /\ queue_in # <<>>
    /\ queue_in[1].owner = "worker"

\* C10: a 'c' or 'g' key toggles its flag and puts last_data back when there
\* is one and the queue has room, and otherwise leaves the queue alone; 'r'
\* and the other keys never touch it. What a tick takes out is a copy made by
\* update of a snapshot a caller passed, or the snapshot dequeued before; and
\* the get of on_timer always finds an item.
C10_DispatchRequeues ==
    [][ /\ (color_f' # color_f \/ gt_f' # gt_f
              => queue_in' = IF last_data # None /\ Len(queue_in) = 0
                             THEN <<last_data>> ELSE queue_in)
        /\ (ref_f' # ref_f => queue_in' = queue_in)
        /\ ((\E key \in Keys \ {"c", "g"} : Dispatch(key)) => queue_in' = queue_in)
        /\ (Dequeues
              => /\ \E d \in Data : SameContents(d, Head(queue_in))
                 /\ \/ Head(queue_in).owner = "copy"
                    \/ Head(queue_in) = last_data)
        /\ (wpc' = "on_timer_get" => ~Empty(queue_in'))
      ]_vars

\* a 'c' key has put last_data back
C10_Witness ==
    /\ ~color_f
    /\ last_data # None
    /\ queue_in = <<last_data>>

\* C8: after i iterations latest.pth holds the state of the last iteration j
\* with (j + 1) % 5000 = 0, the state after j + 1 optimizer steps, and does
\* not exist when there was none; with Train.epochs < 5000 no checkpoint file
\* is written.
C8_LatestEvery5000 ==
    /\ latest_pth = (IF i < 5000 THEN Absent ELSE <<(i \div 5000) * 5000>>)
    /\ (epochs < 5000 => latest_pth = Absent /\ best_pth = Absent)

\* the loop has ended some iterations after the last checkpoint
C8_Witness ==
    /\ tpc = "done"
    /\ latest_pth = <<15000>>
    /\ steps > 15000

\* the least chamfer_real of the checkpoint iterations in h
MinChamfer(h) ==
    CHOOSE m \in {h[k].chamfer : k \in DOMAIN h} :
        \A k \in DOMAIN h : m <= h[k].chamfer

\* the first checkpoint iteration of h that attains it
EarliestMin(h) ==
    CHOOSE k \in DOMAIN h :
        /\ h[k].chamfer = MinChamfer(h)
        /\ \A j \in 1..(k - 1) : h[j].chamfer > MinChamfer(h)

\* C9: chamfer_real is bound whenever line 133 reads it, and was assigned in
\* that same iteration; every checkpoint iteration is on record; best is
\* infinity before the first of them and then the least chamfer_real of those
\* so far (so it never increases), and best.pth holds the state of the
\* earliest checkpoint iteration that attains it.
C9_BestIsEarliestMinimum ==
    /\ tpc # "error"
    /\ Len(ckpts) = i \div 5000
    /\ \A k \in DOMAIN ckpts :
          /\ ckpts[k].iter + 1 = 5000 * k
          /\ ckpts[k].chamfer_iter = <<ckpts[k].iter>>
          /\ ckpts[k].steps = ckpts[k].iter + 1
    /\ IF ckpts = <<>>
       THEN best = Inf /\ best_pth = Absent
       ELSE /\ best = <<MinChamfer(ckpts)>>
            /\ best_pth = <<ckpts[EarliestMin(ckpts)].steps>>

\* the minimum is attained at the first checkpoint and again at the third
C9_Witness ==
    /\ Len(ckpts) = 3
    /\ ckpts[1].chamfer = ckpts[3].chamfer
    /\ ckpts[2].chamfer > ckpts[1].chamfer
    /\ best_pth = <<5000>>

====
